---- MODULE Spec2Model ----
(***************************************************************************)
(* Model of lab2.2.py: a one-shot exploratory-analysis script.  The entry  *)
(* point connects, loads a table, encodes its textual columns, reports the *)
(* shape, runs two hypothesis tests and prints a correlation table.  Two   *)
(* profiling functions are defined by the script as well.                  *)
(*                                                                         *)
(* A cell of the table is a record [k, v]: k is "null", "text" or "num".  *)
(* A column is [name, dtype, vals]; a dataset is a sequence of columns.    *)
(* p-values are integers in hundredths; NaN is a value of its own for      *)
(* which every ordered comparison is false, as in IEEE arithmetic.         *)
(***************************************************************************)
EXTENDS Integers, Sequences, FiniteSets, TLC

VARIABLES pc, calls, out, raised, df, df0, labels, groups, p_value,
          correlation, columns, i

vars == <<pc, calls, out, raised, df, df0, labels, groups, p_value,
          correlation, columns, i>>

(* ------------------------------ bounds -------------------------------- *)
MaxRows == 2
MaxEncRows == 3
MaxCorrRows == 3
MaxCols == 3

(* ------------------------------ values -------------------------------- *)
Null == [k |-> "null", v |-> 0]
Text(n) == [k |-> "text", v |-> n]
Num(n) == [k |-> "num", v |-> n]

isnull(c) == c.k = "null"

NaN == 0 - 1
Alpha == 5
PVals == {0, 4, 5, 6, 100, NaN}

Less(p, a) == p # NaN /\ p < a

Line(kind, who, arg) == [kind |-> kind, who |-> who, arg |-> arg]

Min(a, b) == IF a < b THEN a ELSE b

(* ------------------------------ dataset ------------------------------- *)
Column(name, dtype, vals) == [name |-> name, dtype |-> dtype, vals |-> vals]

ColNames(d) == [j \in 1..Len(d) |-> d[j].name]

HasCol(d, c) == \E j \in 1..Len(d) : d[j].name = c

Col(d, c) == d[CHOOSE j \in 1..Len(d) : d[j].name = c]

shape(d) == <<IF Len(d) = 0 THEN 0 ELSE Len(d[1].vals), Len(d)>>

SetCol(d, c, dtype, vals) ==
  [j \in 1..Len(d) |-> IF d[j].name = c THEN Column(c, dtype, vals) ELSE d[j]]

RECURSIVE select_dtypes(_, _)
select_dtypes(d, include) ==
  IF Len(d) = 0 THEN <<>>
  ELSE (IF d[1].dtype \in include THEN <<d[1].name>> ELSE <<>>)
       \o select_dtypes(Tail(d), include)

dropna(vals) == SelectSeq(vals, LAMBDA c : ~isnull(c))

(* df[df[by] == value][c] : the cells of column c in the rows whose by-cell *)
(* equals value; a null cell equals nothing.                               *)
RECURSIVE RowsWhere(_, _, _, _)
RowsWhere(byvals, value, cvals, r) ==
  IF r > Len(byvals) THEN <<>>
  ELSE (IF ~isnull(byvals[r]) /\ byvals[r] = value THEN <<cvals[r]>> ELSE <<>>)
       \o RowsWhere(byvals, value, cvals, r + 1)

(* Series.unique(): the distinct values in order of first appearance, a    *)
(* null among them.                                                        *)
RECURSIVE unique(_)
unique(vals) ==
  IF Len(vals) = 0 THEN <<>>
  ELSE LET rest == unique(SubSeq(vals, 1, Len(vals) - 1))
           last == vals[Len(vals)]
       IN IF \E j \in 1..Len(rest) : rest[j] = last THEN rest
          ELSE Append(rest, last)

IndexOf(s, x) == CHOOSE j \in 1..Len(s) : s[j] = x

(* pd.factorize: codes 0, 1, ... in order of first appearance, -1 for a    *)
(* null; uniques holds the non-null values in that order.                  *)
factorize_sorted(vals) ==
  LET u == dropna(unique(vals))
      rank(x) == Cardinality({j \in 1..Len(u) : u[j].v < x.v})
  IN [codes |-> [r \in 1..Len(vals) |->
                   IF isnull(vals[r]) THEN Num(-1) ELSE Num(rank(vals[r]))],
      uniques |-> u]

factorize(vals) ==
  LET u == dropna(unique(vals))
  IN [codes |-> [r \in 1..Len(vals) |->
                   IF isnull(vals[r]) THEN Num(-1)
                   ELSE Num(IndexOf(u, vals[r]) - 1)],
      uniques |-> u]

CategoricalDtypes == {"object", "category"}

categorical_columns_all(d) == ColNames(d)

categorical_columns(d) == select_dtypes(d, CategoricalDtypes)

(* The loop of encode_categorical_variables over names[k..]: st carries    *)
(* the dataset, the label lists and the printed lines.                     *)
RECURSIVE EncodeLoop(_, _, _)
EncodeLoop(st, names, k) ==
  IF k > Len(names) THEN st
  ELSE LET col == names[k]
           f == factorize(Col(st.df, col).vals)
       IN EncodeLoop(
            [df |-> SetCol(st.df, col, "int64", f.codes),
             labels |-> Append(st.labels, [name |-> col, unique_values |-> f.uniques]),
             out |-> st.out \o
               <<Line("encoded", col, 0),
                 Line("head", col, Min(5, Len(f.codes))),
                 Line("categories", col, Min(5, Len(f.uniques)))>>],
            names, k + 1)

Encode(d) == EncodeLoop([df |-> d, labels |-> <<>>, out |-> <<>>],
                        categorical_columns(d), 1)

(* --------------------------- correlation ------------------------------ *)
RECURSIVE SeqSum(_)
SeqSum(s) == IF Len(s) = 0 THEN 0 ELSE s[1] + SeqSum(Tail(s))

(* The rows in which both columns hold a value (pairwise-complete rows).   *)
RECURSIVE PairRows(_, _, _)
PairRows(x, y, r) ==
  IF r > Len(x) THEN <<>>
  ELSE (IF ~isnull(x[r]) /\ ~isnull(y[r]) THEN <<r>> ELSE <<>>)
       \o PairRows(x, y, r + 1)

(* Pearson's r of two columns as the exact pair (num, den):                *)
(* r = num / sqrt(den), and r is NaN when den = 0.                         *)
pearson(x, y) ==
  LET rows == PairRows(x, y, 1)
      n == Len(rows)
      sx == SeqSum([j \in 1..n |-> x[rows[j]].v])
      sy == SeqSum([j \in 1..n |-> y[rows[j]].v])
      sxx == SeqSum([j \in 1..n |-> x[rows[j]].v * x[rows[j]].v])
      syy == SeqSum([j \in 1..n |-> y[rows[j]].v * y[rows[j]].v])
      sxy == SeqSum([j \in 1..n |-> x[rows[j]].v * y[rows[j]].v])
      vx == n * sxx - sx * sx
      vy == n * syy - sy * sy
  IN [nan |-> vx * vy = 0, num |-> n * sxy - sx * sy, den |-> vx * vy]

SgnSq(a) == IF a < 0 THEN 0 - a * a ELSE a * a

(* a > b for two entries that are not NaN.                                 *)
Gt(a, b) == SgnSq(a.num) * b.den > SgnSq(b.num) * a.den

(* e stands before f in a descending sort that puts NaN last.              *)
Before_ascending(e, f) == ~e.r.nan /\ (f.r.nan \/ Gt(f.r, e.r))

Before(e, f) == ~e.r.nan /\ (f.r.nan \/ Gt(e.r, f.r))

RECURSIVE Insert(_, _)
Insert(s, e) ==
  IF Len(s) = 0 THEN <<e>>
  ELSE IF Before(e, s[1]) THEN <<e>> \o s
  ELSE <<s[1]>> \o Insert(Tail(s), e)

RECURSIVE sort_values(_)
sort_values(s) ==
  IF Len(s) = 0 THEN <<>>
  ELSE Insert(sort_values(SubSeq(s, 1, Len(s) - 1)), s[Len(s)])

NumericDtypes == {"float64", "int64"}

(* df[numeric_columns].corr()[target_column].sort_values(ascending=False) *)
corr_column(d, numeric_columns, target_column) ==
  sort_values([j \in 1..Len(numeric_columns) |->
                 [name |-> numeric_columns[j],
                  r |-> pearson(Col(d, numeric_columns[j]).vals,
                                Col(d, target_column).vals)]])

InSeq(s, x) == \E j \in 1..Len(s) : s[j] = x

(* -------------------------- hypothesis tests -------------------------- *)
Decision_le(p) == IF p # NaN /\ p <= Alpha THEN "reject" ELSE "fail_to_reject"

Decision(p) == IF Less(p, Alpha) THEN "reject" ELSE "fail_to_reject"

(* Lines 70-77.  p stands for the p-value f_oneway returns.                *)
TestA(d, p) ==
  LET head == <<Line("hypothesis", "A", 0)>>
  IN IF ~HasCol(d, "landuse")
     THEN [raised |-> "KeyError", lines |-> head, groups |-> <<>>]
     ELSE LET lu == Col(d, "landuse").vals
              values == dropna(unique(lu))
          IN IF Len(values) > 0 /\ ~HasCol(d, "saleprice")
             THEN [raised |-> "KeyError", lines |-> head, groups |-> <<>>]
             ELSE LET g == [j \in 1..Len(values) |->
                              dropna(RowsWhere(lu, values[j],
                                               Col(d, "saleprice").vals, 1))]
                  IN IF Len(g) < 2
                     THEN [raised |-> "TypeError", lines |-> head, groups |-> g]
                     ELSE [raised |-> "none",
                           lines |-> head \o <<Line("result", "A", p),
                                               Line(Decision(p), "A", 0)>>,
                           groups |-> g]

(* Lines 79-87.  p stands for the p-value ttest_ind returns.               *)
TestB(d, p) ==
  LET head == <<Line("hypothesis", "B", 0)>>
  IN IF ~HasCol(d, "soldasvacant") \/ ~HasCol(d, "acreage")
     THEN [raised |-> "KeyError", lines |-> head]
     ELSE [raised |-> "none",
           lines |-> head \o <<Line("result", "B", p),
                               Line(Decision(p), "B", 0)>>]

(* ----------------------- the table the query returns ------------------ *)
InferDtype(vals) ==
  IF \E r \in 1..Len(vals) : isnull(vals[r]) THEN "float64" ELSE "int64"

Drop(d, c) == SelectSeq(d, LAMBDA col : col.name # c)

MainColumns(n, lu, sp) ==
  <<Column("landuse", "object", lu),
    Column("saleprice", InferDtype(sp), sp),
    Column("soldasvacant", "int64", [r \in 1..n |-> Num(r % 2)]),
    Column("acreage", "float64", [r \in 1..n |-> Num(r)])>>

MainNames == {"landuse", "saleprice", "soldasvacant", "acreage"}

LandUseCells == {Text(1), Text(2), Null}

SalePriceCells == {Num(1), Num(2), Null}

(* The table of n rows with these land-use and sale-price cells, the       *)
(* column m (if it names one) not being in the table.                      *)
MainDataset(n, lu, sp, m) == Drop(MainColumns(n, lu, sp), m)

(* ------------------------------ entry point --------------------------- *)
Init ==
  /\ pc = "main_110"
  /\ calls = <<>>
  /\ out = <<>>
  /\ raised = "none"
  /\ df = <<>>
  /\ df0 = <<>>
  /\ labels = <<>>
  /\ groups = <<>>
  /\ p_value = NaN
  /\ correlation = <<>>
  /\ columns = <<>>
  /\ i = 0

connect_to_db ==
  /\ pc = "main_110"
  /\ calls' = Append(calls, "Connector")
  /\ \E ok \in BOOLEAN :
       IF ok
       THEN /\ out' = Append(out, Line("connected", "Connector", 0))
            /\ raised' = raised
            /\ pc' = "main_114"
       ELSE /\ out' = Append(out, Line("error", "Connector", 0))
            /\ raised' = "create_engine"
            /\ pc' = "exited"
  /\ UNCHANGED <<df, df0, labels, groups, p_value, correlation, columns, i>>

load_data_no_exit ==
  /\ pc = "main_114"
  /\ calls' = Append(calls, "Loader")
  /\ \/ \E n \in 0..MaxRows, m \in MainNames \cup {"-"} :
        \E lu \in [1..n -> LandUseCells], sp \in [1..n -> SalePriceCells] :
          /\ df' = MainDataset(n, lu, sp, m)
          /\ df0' = df'
          /\ out' = Append(out, Line("loaded", "Loader", 0))
          /\ raised' = raised
          /\ pc' = "main_122"
     \/ /\ out' = Append(out, Line("error", "Loader", 0))
        /\ raised' = "read_sql_query"
        /\ pc' = "main_122"
        /\ UNCHANGED <<df, df0>>
  /\ UNCHANGED <<labels, groups, p_value, correlation, columns, i>>

load_data ==
  /\ pc = "main_114"
  /\ calls' = Append(calls, "Loader")
  /\ \/ \E n \in 0..MaxRows, m \in MainNames \cup {"-"} :
        \E lu \in [1..n -> LandUseCells], sp \in [1..n -> SalePriceCells] :
          /\ df' = MainDataset(n, lu, sp, m)
          /\ df0' = df'
          /\ out' = Append(out, Line("loaded", "Loader", 0))
          /\ raised' = raised
          /\ pc' = "main_122"
     \/ /\ out' = Append(out, Line("error", "Loader", 0))
        /\ raised' = "read_sql_query"
        /\ pc' = "exited"
        /\ UNCHANGED <<df, df0>>
  /\ UNCHANGED <<labels, groups, p_value, correlation, columns, i>>

encode_categorical_variables ==
  /\ pc = "main_122"
  /\ calls' = Append(calls, "Encoder")
  /\ LET e == Encode(df)
     IN /\ df' = e.df
        /\ labels' = e.labels
        /\ out' = out \o e.out
  /\ pc' = "main_125"
  /\ UNCHANGED <<raised, df0, groups, p_value, correlation, columns, i>>

analyze_dataset ==
  /\ pc = "main_125"
  /\ calls' = Append(calls, "ShapeReporter")
  /\ out' = out \o <<Line("rows", "ShapeReporter", shape(df)[1]),
                     Line("columns", "ShapeReporter", shape(df)[2])>>
  /\ pc' = "main_128"
  /\ UNCHANGED <<raised, df, df0, labels, groups, p_value, correlation,
                 columns, i>>

test_hypotheses_catch ==
  /\ pc = "main_128"
  /\ calls' = Append(calls, "HypothesisTester")
  /\ \E pA \in PVals, pB \in PVals :
       LET a == TestA(df, pA)
           b == TestB(df, pB)
       IN /\ groups' = a.groups
          /\ IF b.raised # "none"
             THEN /\ out' = out \o a.lines \o b.lines
                  /\ raised' = b.raised
                  /\ p_value' = IF a.raised # "none" THEN p_value ELSE pA
                  /\ pc' = "crashed"
             ELSE /\ out' = out \o a.lines \o b.lines
                  /\ raised' = a.raised
                  /\ p_value' = pB
                  /\ pc' = "main_131"
  /\ UNCHANGED <<df, df0, labels, correlation, columns, i>>

test_hypotheses ==
  /\ pc = "main_128"
  /\ calls' = Append(calls, "HypothesisTester")
  /\ \E pA \in PVals, pB \in PVals :
       LET a == TestA(df, pA)
           b == TestB(df, pB)
       IN /\ groups' = a.groups
          /\ IF a.raised # "none"
             THEN /\ out' = out \o a.lines
                  /\ raised' = a.raised
                  /\ p_value' = p_value
                  /\ pc' = "crashed"
             ELSE IF b.raised # "none"
             THEN /\ out' = out \o a.lines \o b.lines
                  /\ raised' = b.raised
                  /\ p_value' = pA
                  /\ pc' = "crashed"
             ELSE /\ out' = out \o a.lines \o b.lines
                  /\ raised' = raised
                  /\ p_value' = pB
                  /\ pc' = "main_131"
  /\ UNCHANGED <<df, df0, labels, correlation, columns, i>>

correlation_table ==
  /\ pc = "main_131"
  /\ calls' = Append(calls, "CorrelationReporter")
  /\ LET numeric_columns == select_dtypes(df, NumericDtypes)
     IN IF ~InSeq(numeric_columns, "saleprice")
        THEN /\ raised' = "KeyError"
             /\ pc' = "crashed"
             /\ UNCHANGED <<out, correlation>>
        ELSE /\ correlation' = corr_column(df, numeric_columns, "saleprice")
             /\ out' = out \o <<Line("correlation", "saleprice",
                                     Len(numeric_columns)),
                                Line("heatmap", "CorrelationReporter",
                                     Len(numeric_columns))>>
             /\ raised' = raised
             /\ pc' = "done"
  /\ UNCHANGED <<df, df0, labels, groups, p_value, columns, i>>

Next ==
  \/ connect_to_db
  \/ load_data
  \/ encode_categorical_variables
  \/ analyze_dataset
  \/ test_hypotheses
  \/ correlation_table

Spec == Init /\ [][Next]_vars

(* ------------------------- the two profilers -------------------------- *)
ProfNames == {"saleprice", "landuse", "ghost"}

ColumnLists == UNION {[1..n -> ProfNames] : n \in 0..MaxCols}

ProfDatasets ==
  {MainColumns(0, <<>>, <<>>)} \cup
  {MainColumns(1, <<lu>>, <<sp>>) : lu \in {Text(1), Null}, sp \in {Num(1), Null}}

NullCount(vals) == Len(vals) - Len(dropna(vals))

(* Lines 31-43 for one column, the ten statistics being lines 32-41.  k is *)
(* the number of statistics printed before one raises; at k = 10 none      *)
(* does.  The handler of line 42 prints the error.                         *)
numeric_report(col, k) ==
  <<Line("header", col, 0)>> \o [n \in 1..k |-> Line("stat", col, n)]
    \o (IF k < 10 THEN <<Line("error", col, 0)>> ELSE <<>>)

(* Where profiling a column can raise.  df[col] raises for a missing       *)
(* column (line 32).  On a column of numeric storage nothing raises.  On   *)
(* one of any other storage it rests with the cells: max (line 33) or mean *)
(* (line 35) raises, or every statistic is defined.                        *)
RaisePoints(d, col) ==
  IF ~HasCol(d, col) THEN {0}
  ELSE IF Col(d, col).dtype \in NumericDtypes THEN {10}
  ELSE {1, 3, 10}

(* Lines 48-51 for one column that exists.                                 *)
categorical_report(d, col) ==
  LET vals == Col(d, col).vals
      nunique == Len(dropna(unique(vals)))
  IN <<Line("header", col, 0),
       Line("missing", col, NullCount(vals)),
       Line("nunique", col, nunique),
       Line("mode", col, IF nunique = 0 THEN 0 ELSE 1)>>

InitProfile ==
  /\ calls \in {<<"NumericProfiler">>, <<"CategoricalProfiler">>}
  /\ pc = IF calls = <<"NumericProfiler">> THEN "numeric_29" ELSE "categorical_47"
  /\ df \in ProfDatasets
  /\ df0 = df
  /\ columns \in ColumnLists
  /\ i = 1
  /\ out = <<>>
  /\ raised = "none"
  /\ labels = <<>>
  /\ groups = <<>>
  /\ p_value = NaN
  /\ correlation = <<>>

(* The same loop body without the try of line 30.                          *)
exploratory_analysis_numeric_no_try ==
  /\ pc = "numeric_29"
  /\ i <= Len(columns)
  /\ \E k \in RaisePoints(df, columns[i]) :
       LET rep == numeric_report(columns[i], k)
       IN IF k < 10
          THEN /\ out' = out \o SubSeq(rep, 1, Len(rep) - 1)
               /\ raised' = IF k = 0 THEN "KeyError" ELSE "TypeError"
               /\ pc' = "propagated"
               /\ i' = i
          ELSE /\ out' = out \o rep
               /\ i' = i + 1
               /\ UNCHANGED <<pc, raised>>
  /\ UNCHANGED <<calls, df, df0, labels, groups, p_value, correlation, columns>>

(* One pass of the loop of lines 29-43.                                    *)
exploratory_analysis_numeric ==
  /\ pc = "numeric_29"
  /\ i <= Len(columns)
  /\ \E k \in RaisePoints(df, columns[i]) :
       out' = out \o numeric_report(columns[i], k)
  /\ i' = i + 1
  /\ UNCHANGED <<pc, calls, raised, df, df0, labels, groups, p_value,
                 correlation, columns>>

numeric_return ==
  /\ pc = "numeric_29"
  /\ i > Len(columns)
  /\ pc' = "returned"
  /\ UNCHANGED <<calls, out, raised, df, df0, labels, groups, p_value,
                 correlation, columns, i>>

(* The same loop body inside a try that logs and goes on.                  *)
exploratory_analysis_categorical_try ==
  /\ pc = "categorical_47"
  /\ i <= Len(columns)
  /\ LET col == columns[i]
     IN IF ~HasCol(df, col)
        THEN out' = out \o <<Line("header", col, 0), Line("error", col, 0)>>
        ELSE out' = out \o categorical_report(df, col)
  /\ i' = i + 1
  /\ UNCHANGED <<pc, calls, raised, df, df0, labels, groups, p_value,
                 correlation, columns>>

(* One pass of the loop of lines 47-51.                                    *)
exploratory_analysis_categorical ==
  /\ pc = "categorical_47"
  /\ i <= Len(columns)
  /\ LET col == columns[i]
     IN IF ~HasCol(df, col)
        THEN /\ out' = Append(out, Line("header", col, 0))
             /\ raised' = "KeyError"
             /\ pc' = "propagated"
             /\ i' = i
        ELSE /\ out' = out \o categorical_report(df, col)
             /\ i' = i + 1
             /\ UNCHANGED <<pc, raised>>
  /\ UNCHANGED <<calls, df, df0, labels, groups, p_value, correlation, columns>>

categorical_return ==
  /\ pc = "categorical_47"
  /\ i > Len(columns)
  /\ pc' = "returned"
  /\ UNCHANGED <<calls, out, raised, df, df0, labels, groups, p_value,
                 correlation, columns, i>>

NextProfile ==
  \/ exploratory_analysis_numeric
  \/ numeric_return
  \/ exploratory_analysis_categorical
  \/ categorical_return

SpecProfile == InitProfile /\ [][NextProfile]_vars

(* --------------------- the encoder on any dataset --------------------- *)
Alphabet(dtype) ==
  CASE dtype = "object" -> {Text(1), Text(2), Null}
    [] dtype = "float64" -> {Num(1), Null}
    [] dtype = "int64" -> {Num(1), Num(2)}
    [] dtype = "datetime64" -> {Num(1), Null}

Dtypes == {"object", "float64", "int64", "datetime64"}

EncDataset(ta, a, tb, b) ==
  <<Column("landuse", ta, a), Column("saledate", tb, b)>>

InitEncoder ==
  /\ pc = "main_122"
  /\ calls = <<"Connector", "Loader">>
  /\ out = <<Line("connected", "Connector", 0), Line("loaded", "Loader", 0)>>
  /\ raised = "none"
  /\ \E n \in 0..MaxEncRows, ta \in Dtypes, tb \in Dtypes :
       \E a \in [1..n -> Alphabet(ta)], b \in [1..n -> Alphabet(tb)] :
         df = EncDataset(ta, a, tb, b)
  /\ df0 = df
  /\ labels = <<>>
  /\ groups = <<>>
  /\ p_value = NaN
  /\ correlation = <<>>
  /\ columns = <<>>
  /\ i = 0

NextEncoder == encode_categorical_variables

SpecEncoder == InitEncoder /\ [][NextEncoder]_vars

(* ---------------- the correlation reporter on any dataset ------------- *)
CorrCells == {Num(0), Num(1), Null}

CorrDataset(n, ts, sp, ac) ==
  <<Column("saleprice", ts, sp),
    Column("acreage", "float64", ac),
    Column("totalvalue", ts, [r \in 1..n |->
       IF isnull(sp[r]) THEN Null ELSE Num(2 * sp[r].v + 1)]),
    Column("saledate", "datetime64", [r \in 1..n |-> Num(r)])>>

InitCorr ==
  /\ pc = "main_131"
  /\ calls = <<"Connector", "Loader", "Encoder", "ShapeReporter",
               "HypothesisTester">>
  /\ out = <<>>
  /\ raised = "none"
  /\ \E n \in 0..MaxCorrRows, ts \in {"float64", "object"} :
       \E sp \in [1..n -> CorrCells], ac \in [1..n -> CorrCells] :
         df = CorrDataset(n, ts, sp, ac)
  /\ df0 = df
  /\ labels = <<>>
  /\ groups = <<>>
  /\ p_value = NaN
  /\ correlation = <<>>
  /\ columns = <<>>
  /\ i = 0

NextCorr == correlation_table

SpecCorr == InitCorr /\ [][NextCorr]_vars

(* =============================== claims =============================== *)
Kinds(k) == SelectSeq(out, LAMBDA l : l.kind = k)

Who(s) == [j \in 1..Len(s) |-> s[j].who]

Called(stage) == InSeq(calls, stage)

(* C1: when create_engine or read_sql_query raises, the stage that called  *)
(* it has printed its error as the last line, the process has exited, no   *)
(* step is left to take and no later stage was ever started.               *)
C1_FatalExit ==
  /\ raised = "create_engine" =>
       /\ pc = "exited"
       /\ calls = <<"Connector">>
       /\ out[Len(out)] = Line("error", "Connector", 0)
       /\ ~ENABLED Next
  /\ raised = "read_sql_query" =>
       /\ pc = "exited"
       /\ calls = <<"Connector", "Loader">>
       /\ out[Len(out)] = Line("error", "Loader", 0)
       /\ ~ENABLED Next
  /\ pc = "exited" => raised \in {"create_engine", "read_sql_query"}

C1_Witness ==
  /\ pc = "exited"
  /\ raised = "read_sql_query"
  /\ calls = <<"Connector", "Loader">>

(* C2: a run that ends without any failure has invoked the eight stages,   *)
(* each once, in the order the overview lists them.                        *)
C2_EightStagesInOrder ==
  (pc = "done" /\ raised = "none") =>
    calls = <<"Connector", "Loader", "NumericProfiler", "CategoricalProfiler",
              "Encoder", "ShapeReporter", "HypothesisTester",
              "CorrelationReporter">>

(* The first row of vals that holds x.                                     *)
FirstRow(vals, x) == CHOOSE r \in 1..Len(vals) :
  vals[r] = x /\ \A q \in 1..(r - 1) : vals[q] # x

RoundTrip(orig, enc, u) ==
  /\ \A r \in 1..Len(orig) :
       IF isnull(orig[r])
       THEN enc[r].v \notin 0..(Len(u) - 1)
       ELSE /\ enc[r].v \in 0..(Len(u) - 1)
            /\ u[enc[r].v + 1] = orig[r]
  /\ \A r, q \in 1..Len(orig) : (orig[r] = orig[q]) <=> (enc[r] = enc[q])
  /\ \A j, k \in 1..Len(u) :
       j < k => /\ u[j] # u[k]
                /\ InSeq(orig, u[j]) /\ InSeq(orig, u[k])
                /\ FirstRow(orig, u[j]) < FirstRow(orig, u[k])

(* C3: after encoding, in every encoded column a non-null original value   *)
(* is found again at its code in the column's label list, the labels are   *)
(* distinct and stand in order of first appearance, equal values have      *)
(* equal codes and distinct values distinct codes, and all nulls carry one *)
(* code that is no index of a label list.                                  *)
C3_EncodingRoundTrip ==
  pc = "main_125" =>
    /\ [j \in 1..Len(labels) |-> labels[j].name]
         = select_dtypes(df0, {"object", "category"})
    /\ \A j \in 1..Len(labels) :
         RoundTrip(Col(df0, labels[j].name).vals,
                   Col(df, labels[j].name).vals,
                   labels[j].unique_values)
    /\ \A j \in 1..Len(df0), r \in 1..shape(df0)[1], c \in 1..Len(df0),
          q \in 1..shape(df0)[1] :
         (df0[j].dtype \in {"object", "category"}
          /\ df0[c].dtype \in {"object", "category"}
          /\ isnull(df0[j].vals[r]) /\ isnull(df0[c].vals[q]))
           => df[j].vals[r] = df[c].vals[q]

C3_Witness ==
  /\ pc = "main_125"
  /\ \E j \in 1..Len(labels) :
       /\ Len(labels[j].unique_values) = 2
       /\ labels[j].unique_values[1] = Text(2)
       /\ \E r \in 1..shape(df0)[1] : isnull(Col(df0, labels[j].name).vals[r])

(* The groups of line 71 computed on the table as it was loaded.           *)
GroupsOfLoaded ==
  LET lu == Col(df0, "landuse").vals
      values == dropna(unique(lu))
  IN [j \in 1..Len(values) |->
        dropna(RowsWhere(lu, values[j], Col(df0, "saleprice").vals, 1))]

(* C4: the groups Test A hands to the ANOVA are, one per distinct non-null *)
(* land-use value of the loaded table and in order of first appearance,    *)
(* the non-null sale prices of the rows that carry that value.             *)
C4_OneGroupPerLandUse ==
  (Called("HypothesisTester") /\ HasCol(df0, "landuse")
   /\ HasCol(df0, "saleprice")) => groups = GroupsOfLoaded

(* The report of the m-th column started: the lines after its header.     *)
HeaderAt == SelectSeq([j \in 1..Len(out) |-> j], LAMBDA j : out[j].kind = "header")

Block(m) ==
  SubSeq(out, HeaderAt[m] + 1,
         IF m < Len(HeaderAt) THEN HeaderAt[m + 1] - 1 ELSE Len(out))

Count(s, kind) == Len(SelectSeq(s, LAMBDA l : l.kind = kind))

(* C5: the numeric profiler starts every column of its list in list order *)
(* and returns normally, no error leaving it; a column whose statistics    *)
(* stop short has exactly one logged error, as the last line of its        *)
(* report, a column with all ten has none, and a missing column is always  *)
(* among the former.                                                       *)
C5_NumericIsolation ==
  calls = <<"NumericProfiler">> =>
    /\ pc \in {"numeric_29", "returned"}
    /\ raised = "none"
    /\ Who(Kinds("header")) = SubSeq(columns, 1, i - 1)
    /\ \A m \in 1..Len(HeaderAt) :
         LET b == Block(m)
             col == out[HeaderAt[m]].who
         IN /\ \A j \in 1..Len(b) : b[j].who = col
            /\ IF Count(b, "stat") = 10
               THEN Count(b, "error") = 0
               ELSE /\ Count(b, "error") = 1
                    /\ b[Len(b)].kind = "error"
            /\ ~HasCol(df, col) => Count(b, "error") = 1
    /\ pc = "returned" => i = Len(columns) + 1
    /\ pc = "numeric_29" => ENABLED NextProfile

C5_Witness ==
  /\ calls = <<"NumericProfiler">>
  /\ pc = "returned"
  /\ Len(columns) = 3
  /\ ~HasCol(df, columns[1])
  /\ HasCol(df, columns[2]) /\ Col(df, columns[2]).dtype = "object"
  /\ HasCol(df, columns[3]) /\ Col(df, columns[3]).dtype = "float64"
  /\ Count(out, "error") = 2
  /\ Count(out, "stat") = 13

(* C6: in the categorical profiler a column that raises ends the loop: the *)
(* error leaves the function unlogged, every earlier column has its full   *)
(* report, and no later column is started.                                 *)
C6_CategoricalAborts ==
  calls = <<"CategoricalProfiler">> =>
    /\ \A k \in 1..(i - 1) : HasCol(df, columns[k])
    /\ Who(Kinds("mode")) = SubSeq(columns, 1, i - 1)
    /\ Len(Kinds("error")) = 0
    /\ (i <= Len(columns) /\ InSeq(Who(Kinds("header")), columns[i])
        /\ Len(Kinds("header")) = i) =>
         /\ pc = "propagated"
         /\ raised # "none"
         /\ ~ENABLED NextProfile
    /\ pc = "propagated" =>
         /\ ~HasCol(df, columns[i])
         /\ Who(Kinds("header")) = SubSeq(columns, 1, i)
    /\ pc = "returned" => raised = "none"

C6_Witness ==
  /\ calls = <<"CategoricalProfiler">>
  /\ pc = "propagated"
  /\ Len(columns) = 3
  /\ i = 2
  /\ HasCol(df, columns[3])
  /\ Len(Kinds("mode")) = 1

(* C7: the encoder keeps the column names and their order, the number of   *)
(* rows and of columns, and every cell and the storage type of every       *)
(* column that is not textual or categorical.                              *)
C7_EncoderFrame ==
  pc = "main_125" =>
    /\ ColNames(df) = ColNames(df0)
    /\ shape(df) = shape(df0)
    /\ \A j \in 1..Len(df0) :
         /\ Len(df[j].vals) = Len(df0[j].vals)
         /\ df0[j].dtype \notin {"object", "category"} => df[j] = df0[j]

C7_Witness ==
  /\ pc = "main_125"
  /\ Len(labels) = 1
  /\ shape(df0)[1] >= 2
  /\ \E j \in 1..Len(df0) : df0[j].dtype = "int64" /\ df[j] = df0[j]
  /\ df # df0

(* r = 1 for the exact pair (num, den).                                    *)
IsOne(a) == ~a.nan /\ a.num > 0 /\ a.num * a.num = a.den

Self == correlation[CHOOSE j \in 1..Len(correlation) :
                      correlation[j].name = "saleprice"].r

(* C8 as stated: whenever the correlation table is printed, the target's   *)
(* own entry is 1.0 and no entry of the table is greater.                  *)
C8_SelfCorrelationIsOne ==
  (Called("CorrelationReporter") /\ pc = "done") =>
    /\ IsOne(Self)
    /\ \A j \in 1..Len(correlation) :
         ~correlation[j].r.nan => ~Gt(correlation[j].r, Self)
    /\ IsOne(correlation[1].r)

(* vals holds two different non-null values.                              *)
HasSpread(vals) ==
  \E r, q \in 1..Len(vals) :
    ~isnull(vals[r]) /\ ~isnull(vals[q]) /\ vals[r] # vals[q]

(* C8 amended: the same, for a target that holds at least two different   *)
(* non-null values.                                                        *)
C8_SelfCorrelationIsOneWithSpread ==
  (Called("CorrelationReporter") /\ pc = "done"
   /\ HasSpread(Col(df, "saleprice").vals)) =>
    /\ IsOne(Self)
    /\ \A j \in 1..Len(correlation) :
         ~correlation[j].r.nan => ~Gt(correlation[j].r, Self)
    /\ IsOne(correlation[1].r)
    /\ \A j, k \in 1..Len(correlation) :
         (j < k /\ ~correlation[k].r.nan) =>
           (~correlation[j].r.nan /\ ~Gt(correlation[k].r, correlation[j].r))

C8_Witness ==
  /\ Called("CorrelationReporter")
  /\ pc = "done"
  /\ HasSpread(Col(df, "saleprice").vals)
  /\ Len(correlation) = 3
  /\ \E j \in 1..3 : /\ correlation[j].name = "acreage"
                     /\ ~correlation[j].r.nan
                     /\ correlation[j].r.num > 0
                     /\ Gt(Self, correlation[j].r)

IsDecision(l) == l.kind \in {"reject", "fail_to_reject"}

(* C9: each printed test result is followed by exactly one decision line   *)
(* of the same test: "reject" when the p-value is below 0.05, "failed to   *)
(* reject" otherwise, also at p = 0.05 and at NaN; no other decision line  *)
(* is printed.                                                             *)
C9_DecisionRule ==
  /\ \A j \in 1..Len(out) :
       out[j].kind = "result" =>
         /\ j < Len(out)
         /\ out[j + 1].who = out[j].who
         /\ out[j + 1].kind =
              (IF out[j].arg \in {0, 1, 2, 3, 4} THEN "reject"
               ELSE "fail_to_reject")
  /\ \A j \in 1..Len(out) :
       IsDecision(out[j]) => /\ j > 1
                             /\ out[j - 1].kind = "result"
                             /\ out[j - 1].who = out[j].who
  /\ \A t \in {"A", "B"} :
       Cardinality({j \in 1..Len(out) : out[j].kind = "result" /\ out[j].who = t}) <= 1

C9_Witness ==
  \E j, k \in 1..Len(out) :
    /\ out[j] = Line("result", "A", Alpha)
    /\ out[j + 1] = Line("fail_to_reject", "A", 0)
    /\ out[k] = Line("result", "B", 4)
    /\ out[k + 1] = Line("reject", "B", 0)

(* Test A was run on a table on which it faults.                           *)
TestAFaults ==
  /\ Called("HypothesisTester")
  /\ \/ ~HasCol(df, "landuse")
     \/ ~HasCol(df, "saleprice")
     \/ Len(groups) < 2

(* C10: when Test A faults (land-use or sale price missing, or fewer than  *)
(* two groups), the run has ended by the propagated fault and not by the   *)
(* logged exit: Test B has printed nothing, no decision was printed and    *)
(* the Correlation Reporter was never started.                             *)
C10_TestAFaultEndsRun ==
  TestAFaults =>
    /\ pc = "crashed"
    /\ raised \in {"KeyError", "TypeError"}
    /\ ~InSeq(out, Line("hypothesis", "B", 0))
    /\ \A j \in 1..Len(out) : ~IsDecision(out[j]) /\ out[j].kind # "result"
    /\ ~Called("CorrelationReporter")
    /\ ~InSeq(out, Line("error", "Connector", 0))
    /\ ~InSeq(out, Line("error", "Loader", 0))
    /\ ~ENABLED Next

C10_Witness ==
  /\ pc = "crashed"
  /\ raised = "TypeError"
  /\ Len(groups) = 1
  /\ Len(groups[1]) = 2
  /\ Called("HypothesisTester")

====
